---- MODULE Spec2Model ----
(***************************************************************************)
(* Scaffold Environment Generator (scaffold.py): the template parser, the  *)
(* prompt/validation loop and the session driver, as a state machine.      *)
(*                                                                         *)
(* A Python str is a sequence of one-character strings.  A Python dict is  *)
(* a function whose DOMAIN is the set of keys present; the insertion-      *)
(* ordered dict final_markdown is a sequence of [key, value] records.      *)
(***************************************************************************)
EXTENDS Integers, Sequences, FiniteSets, TLC

VARIABLES
    pc,               \* position of the running function
    exc,              \* the exception that propagated out of it, or "none"
    \* parse_env_template
    filepath,         \* the kind of path it is called with
    lines,            \* the lines of the template file: in SpecParser those iterated
                      \* so far, in Spec the whole file
    temp_markdown,    \* pending metadata
    final_markdown,   \* the output mapping being built
    result,           \* the value returned
    info_shared,      \* the names of the entries whose info list is the list object
                      \* temp_markdown holds under "info"
    pos,              \* the number of lines the loop has iterated in this call
    calls,            \* the number of earlier calls on the same file that returned
    first_result,     \* the value the first of them returned
    \* prompt
    var,              \* the variable name
    data,             \* the entry
    user_value,       \* data.get("default", "")
    input_str,        \* the candidate value
    inputs,           \* the lines input() has returned in this call, in order
    tested,           \* the candidates re.fullmatch has been called on, in order
    ret,              \* the value returned
    \* main
    parsed_env,       \* the mapping parse_env_template returned
    idx,              \* the number of entries the loop has fetched
    env_file_content, \* the NAME=value lines so far
    env_file_string,  \* the assembled output
    prompt_calls,     \* the names prompt has been called with, in order
    prompt_returns,   \* the values prompt has returned, in order
    platform,         \* os.name, os.geteuid() and what IsUserAnAdmin() does
    exit_code,        \* the status the process exited with, or "none"
    max_env_size,     \* the size limit
    env_length,       \* the byte length of the assembled output
    proceed,          \* the answer to "continue anyway?", or None
    output_filename,  \* the name entered, or None
    overwrite,        \* the answer to "Overwrite?", or None
    main_inputs,      \* the lines input() has returned to main, in order
    f,                \* the output file object: whether opened, its buffer, the
                      \* number of writes made, whether closed
    disk,             \* the file named output_filename, on disk
    disk0             \* that file when the process started

parserVars ==
    <<filepath, lines, temp_markdown, final_markdown, result,
      info_shared, pos, calls, first_result>>
promptVars == <<var, data, user_value, input_str, inputs, tested, ret>>
outputVars ==
    <<platform, exit_code, max_env_size, env_length, proceed, output_filename,
      overwrite, main_inputs, f, disk, disk0>>
mainVars ==
    <<parsed_env, idx, env_file_content, env_file_string, prompt_calls, prompt_returns,
      outputVars>>

vars == <<pc, exc, parserVars, promptVars, mainVars>>

(***************************************************************************)
(* Bounds                                                                  *)
(***************************************************************************)
MaxLines == 3

(***************************************************************************)
(* str                                                                     *)
(***************************************************************************)
Whitespace == {" ", "\t", "\n"}

\* the grave accent U+0060 (one character; a TLA+ string cannot hold it)
Backtick == "U+0060"

string_digits == {"0", "1", "2", "3", "4", "5", "6", "7", "8", "9"}

string_ascii_lowercase ==
    {"a", "b", "c", "d", "e", "f", "g", "h", "i", "j", "k", "l", "m",
     "n", "o", "p", "q", "r", "s", "t", "u", "v", "w", "x", "y", "z"}

string_ascii_uppercase ==
    {"A", "B", "C", "D", "E", "F", "G", "H", "I", "J", "K", "L", "M",
     "N", "O", "P", "Q", "R", "S", "T", "U", "V", "W", "X", "Y", "Z"}

string_ascii_letters == string_ascii_lowercase \cup string_ascii_uppercase

\* s[n:] with a 0-based n
From(s, n) == SubSeq(s, n + 1, Len(s))

\* s.startswith(prefix)
startswith(s, prefix) ==
    /\ Len(s) >= Len(prefix)
    /\ SubSeq(s, 1, Len(prefix)) = prefix

\* s.strip(chars): drop the leading and the trailing characters that are in chars
StripChars(s, chars) ==
    LET keep == {i \in 1..Len(s) : s[i] \notin chars}
    IN  IF keep = {} THEN <<>>
        ELSE LET lo == CHOOSE i \in keep : \A j \in keep : i <= j
                 hi == CHOOSE i \in keep : \A j \in keep : i >= j
             IN  SubSeq(s, lo, hi)

\* s.strip()
strip(s) == StripChars(s, Whitespace)

\* the 1-based position of the first "=" of s, 0 when there is none
FirstEq(s) ==
    IF \E i \in 1..Len(s) : s[i] = "="
    THEN CHOOSE i \in 1..Len(s) : s[i] = "=" /\ \A j \in 1..(i - 1) : s[j] # "="
    ELSE 0

\* s.rsplit("=", 1)[1] instead: the text after the last "="
SplitAfterLastEq(s) ==
    LET last == CHOOSE i \in 1..Len(s) : s[i] = "=" /\ \A j \in (i + 1)..Len(s) : s[j] # "="
    IN  SubSeq(s, last + 1, Len(s))

\* s.split("=", 1)[1]
SplitAfterEq(s) == SubSeq(s, FirstEq(s) + 1, Len(s))

(***************************************************************************)
(* re: the patterns of the templates below, by what re.compile does with   *)
(* them.  "[0-9" is an unterminated character set (re.error); a repeat     *)
(* count of MAXREPEAT or more makes the pattern parser raise OverflowError,*)
(* which is not an re.error.  Any other text compiles.                     *)
(***************************************************************************)
PatDigits == <<"[", "0", "-", "9", "]", "+">>
PatUnterminated == <<"[", "0", "-", "9">>
PatHugeRepeat == <<"a", "{", "4", "2", "9", "4", "9", "6", "7", "2", "9", "5", "}">>

\* re.compile(pattern): "ok", or the class of the exception raised
re_compile(pattern) ==
    CASE pattern = PatUnterminated -> "re.error"
      [] pattern = PatHugeRepeat -> "OverflowError"
      [] OTHER -> "ok"

(***************************************************************************)
(* dict                                                                    *)
(***************************************************************************)
EmptyDict == <<>>

\* None: a value that is no str
None == <<"None">>

\* d[k] = v
DictSet(d, k, v) == (k :> v) @@ d

\* d["info"] = [v] instead: the line replaces the list
DictAppend_Overwrite(d, k, v) == DictSet(d, k, <<v>>)

\* d.setdefault("info", []).append(v)
DictAppend(d, k, v) ==
    IF k \in DOMAIN d THEN DictSet(d, k, Append(d[k], v)) ELSE DictSet(d, k, <<v>>)

Keys(od) == {od[i].key : i \in 1..Len(od)}

\* od[k], for a key the ordered dict holds
Lookup(od, k) == od[CHOOSE i \in 1..Len(od) : od[i].key = k].value

\* od.setdefault(k, {}).update(v) instead: the keys of the earlier value stay
OrderedSet_Merge(od, k, v) ==
    IF k \in Keys(od)
    THEN [i \in 1..Len(od) |->
             IF od[i].key = k THEN [key |-> k, value |-> v @@ od[i].value] ELSE od[i]]
    ELSE Append(od, [key |-> k, value |-> v])

\* od[k] = v on an insertion-ordered dict: a present key keeps its position
OrderedSet(od, k, v) ==
    IF k \in Keys(od)
    THEN [i \in 1..Len(od) |-> IF od[i].key = k THEN [key |-> k, value |-> v] ELSE od[i]]
    ELSE Append(od, [key |-> k, value |-> v])

(***************************************************************************)
(* parse_env_template                                                      *)
(***************************************************************************)
NameChars == string_ascii_uppercase \cup string_digits \cup {"_"}

\* env_var_pattern.match(stripped): the name matched by ^([A-Z0-9_]+)= , or <<>>
env_var_pattern(stripped) ==
    LET eq == FirstEq(stripped)
    IN  IF eq >= 2 /\ \A i \in 1..(eq - 1) : stripped[i] \in NameChars
        THEN SubSeq(stripped, 1, eq - 1)
        ELSE <<>>

IsSectionHeading(stripped) ==
    /\ startswith(stripped, <<"#", " ">>)
    /\ Len(stripped) > 2
    /\ stripped[3] # Backtick

IsQuestionHeading(stripped) == startswith(stripped, <<"#", "#", " ">>)

IsInfoHeading(stripped) == startswith(stripped, <<"#", "#", "#", " ">>)

IsRegexHeading(stripped) == startswith(stripped, <<"#", " ", Backtick>>)

\* the pattern of a regex heading
RegexPattern(stripped) == StripChars(From(stripped, 2), {Backtick})

\* the exception classes the try around re.compile catches
RegexCaught == {"re.error"}

\* the regex branch of the loop body
RegexBranch(tm, fm, stripped) ==
    LET regex_pattern == RegexPattern(stripped)
        tm1 == DictSet(tm, "regex", regex_pattern)
        c == re_compile(regex_pattern)
    IN  IF c = "ok"
        THEN [temp_markdown |-> tm1, final_markdown |-> fm, exc |-> "none"]
        ELSE IF c \in RegexCaught
        THEN [temp_markdown |-> DictSet(tm1, "regex_error", <<"Invalid regex">>),
              final_markdown |-> fm, exc |-> "none"]
        ELSE [temp_markdown |-> tm1, final_markdown |-> fm, exc |-> c]

\* the default captured from a declaration line
DeclDefault(stripped) ==
    IF \E i \in 1..Len(stripped) : stripped[i] = "=" THEN SplitAfterEq(stripped) ELSE None

\* the declaration branch without temp_markdown.clear(): the accumulator is kept
DeclBranch_NoClear(tm, fm, stripped) ==
    LET var_name == env_var_pattern(stripped)
    IN  IF var_name # <<>>
        THEN [temp_markdown |-> tm,
              final_markdown |->
                  OrderedSet(fm, var_name, DictSet(tm, "default", DeclDefault(stripped))),
              exc |-> "none"]
        ELSE [temp_markdown |-> tm, final_markdown |-> fm, exc |-> "none"]

\* the declaration branch of the loop body
DeclBranch(tm, fm, stripped) ==
    LET var_name == env_var_pattern(stripped)
    IN  IF var_name # <<>>
        THEN [temp_markdown |-> EmptyDict,
              final_markdown |->
                  OrderedSet(fm, var_name, DictSet(tm, "default", DeclDefault(stripped))),
              exc |-> "none"]
        ELSE [temp_markdown |-> tm, final_markdown |-> fm, exc |-> "none"]

\* temp_markdown = {}; final_markdown = {} with the accumulator of the earlier call
\* kept instead, as a module-level temp_markdown would be
FreshLocals_KeptAccumulator(tm, fm) ==
    [temp_markdown |-> tm, final_markdown |-> <<>>]

\* temp_markdown = {}; final_markdown = {}: locals, whatever tm and fm an earlier call
\* left
FreshLocals(tm, fm) ==
    [temp_markdown |-> EmptyDict, final_markdown |-> <<>>]

\* the declaration branch is the else of the four heading tests
IsDeclLine(stripped) ==
    /\ ~IsSectionHeading(stripped) /\ ~IsQuestionHeading(stripped)
    /\ ~IsInfoHeading(stripped) /\ ~IsRegexHeading(stripped)
    /\ env_var_pattern(stripped) # <<>>

\* .append(stripped[4:]) changes the list object in place: every entry that holds
\* the same object (temp_markdown.copy() is shallow) sees the appended text
SharedAppend(fm, shared, stripped) ==
    IF IsInfoHeading(stripped) /\ ~IsSectionHeading(stripped) /\ ~IsQuestionHeading(stripped)
    THEN [i \in DOMAIN fm |->
             IF fm[i].key \in shared
             THEN [key |-> fm[i].key,
                   value |-> DictAppend(fm[i].value, "info", From(stripped, 4))]
             ELSE fm[i]]
    ELSE fm

\* the entries that share temp_markdown's info list after a line: the copy shares
\* it with the entry captured, and nobody shares a list temp_markdown no longer
\* (or newly) holds; before and after are temp_markdown around the line
SharedAfter(before, after, shared, stripped) ==
    IF "info" \notin DOMAIN after THEN {}
    ELSE IF "info" \notin DOMAIN before THEN {}
    ELSE IF IsDeclLine(stripped) THEN shared \cup {env_var_pattern(stripped)}
    ELSE shared

\* one iteration of the loop over the lines of the template
ProcessLine(tm, fm, line) ==
    LET stripped == strip(line)
    IN  IF IsSectionHeading(stripped)
        THEN [temp_markdown |-> DictSet(tm, "section", From(stripped, 2)),
              final_markdown |-> fm, exc |-> "none"]
        ELSE IF IsQuestionHeading(stripped)
        THEN [temp_markdown |-> DictSet(tm, "question", From(stripped, 3)),
              final_markdown |-> fm, exc |-> "none"]
        ELSE IF IsInfoHeading(stripped)
        THEN [temp_markdown |-> DictAppend(tm, "info", From(stripped, 4)),
              final_markdown |-> fm, exc |-> "none"]
        ELSE IF IsRegexHeading(stripped)
        THEN RegexBranch(tm, fm, stripped)
        ELSE DeclBranch(tm, fm, stripped)

(***************************************************************************)
(* The template lines the parser is run on                                 *)
(***************************************************************************)
L_SectionS == <<"#", " ", "S">>
L_SectionT == <<"#", " ", "T", "\n">>
L_QuestionQ == <<"#", "#", " ", "Q">>
L_QuestionR == <<" ", "#", "#", " ", "R", "\n">>
L_InfoA == <<"#", "#", "#", " ", "a">>
L_InfoB == <<"#", "#", "#", " ", "b", "\n">>
L_RegexDigits == <<"#", " ", Backtick>> \o PatDigits \o <<Backtick, "\n">>
L_RegexBad == <<"#", " ", Backtick>> \o PatUnterminated \o <<Backtick>>
L_RegexHuge == <<"#", " ", Backtick>> \o PatHugeRepeat \o <<Backtick>>
L_DeclA1 == <<"A", "=", "1", "\n">>
L_DeclAEmpty == <<"A", "=", "\n">>
L_DeclB == <<" ", "B", "_", "2", "=", "x", "=", "y", "\n">>
L_Lower == <<"b", "=", "1">>

LinePool ==
    {L_SectionS, L_SectionT, L_QuestionQ, L_QuestionR, L_InfoA, L_InfoB,
     L_RegexDigits, L_RegexBad, L_RegexHuge, L_DeclA1, L_DeclAEmpty, L_DeclB, L_Lower}

(***************************************************************************)
(* open(filepath) and f.readlines()                                        *)
(***************************************************************************)
\* the exception classes of the builtins involved, with their base classes
Bases(cls) ==
    CASE cls = "FileNotFoundError" -> {"FileNotFoundError", "OSError", "Exception"}
      [] cls = "PermissionError" -> {"PermissionError", "OSError", "Exception"}
      [] cls = "IsADirectoryError" -> {"IsADirectoryError", "OSError", "Exception"}
      [] cls = "UnicodeDecodeError" -> {"UnicodeDecodeError", "ValueError", "Exception"}
      [] cls = "ValueError" -> {"ValueError", "Exception"}
      [] OTHER -> {cls, "Exception"}

\* what opening and reading does, by the kind of path
OpenOutcome(path) ==
    CASE path = "readable" -> "ok"
      [] path = "nonexistent" -> "FileNotFoundError"
      [] path = "empty" -> "FileNotFoundError"
      [] path = "unreadable" -> "PermissionError"
      [] path = "directory" -> "IsADirectoryError"
      [] path = "nullbyte" -> "ValueError"
      [] path = "undecodable" -> "UnicodeDecodeError"

PathKinds ==
    {"readable", "nonexistent", "empty", "unreadable", "directory", "nullbyte",
     "undecodable"}

\* except (OSError, IOError): IOError is an alias of OSError
OpenCaught == {"OSError"}

(***************************************************************************)
(* The parser, one line at a time                                          *)
(***************************************************************************)
\* the variables of a function that is not running
IdleParser ==
    /\ temp_markdown = EmptyDict
    /\ final_markdown = <<>>
    /\ result = <<>>
    /\ info_shared = {}
    /\ pos = 0
    /\ calls = 0
    /\ first_result = <<>>

IdlePrompt ==
    /\ user_value = <<>>
    /\ input_str = <<>>
    /\ inputs = <<>>
    /\ tested = <<>>
    /\ ret = <<>>

IdleMain ==
    /\ parsed_env = <<>>
    /\ idx = 0
    /\ env_file_content = <<>>
    /\ env_file_string = <<>>
    /\ prompt_calls = <<>>
    /\ prompt_returns = <<>>
    /\ exit_code = "none"
    /\ max_env_size = 0
    /\ env_length = 0
    /\ proceed = None
    /\ output_filename = None
    /\ overwrite = None
    /\ main_inputs = <<>>
    /\ f = [opened |-> FALSE, buffer |-> <<>>, writes |-> 0, closed |-> FALSE]

\* an unprivileged POSIX process and no output file
IdleEnv ==
    /\ platform = [os_name |-> "posix", euid |-> "1000", IsUserAnAdmin |-> "absent"]
    /\ disk = [exists |-> FALSE, content |-> <<>>]
    /\ disk0 = disk

InitParser ==
    /\ pc = "open"
    /\ exc = "none"
    /\ filepath \in PathKinds
    /\ lines = <<>>
    /\ IdleParser
    /\ var = <<>>
    /\ data = EmptyDict
    /\ IdlePrompt
    /\ IdleMain
    /\ IdleEnv

\* try: with open(filepath) as f: lines = f.readlines(); the two dicts are created
\* anew by every call
OpenFile ==
    /\ pc = "open"
    /\ LET o == OpenOutcome(filepath)
           new == FreshLocals(temp_markdown, final_markdown)
       IN  IF o = "ok"
           THEN /\ pc' = "loop" /\ exc' = "none" /\ result' = result
                /\ temp_markdown' = new.temp_markdown
                /\ final_markdown' = new.final_markdown
                /\ info_shared' = {}
                /\ pos' = 0
           ELSE /\ IF Bases(o) \cap OpenCaught # {}
                   THEN pc' = "returned" /\ exc' = "none" /\ result' = <<>>
                   ELSE pc' = "raised" /\ exc' = o /\ result' = result
                /\ UNCHANGED <<temp_markdown, final_markdown, info_shared, pos>>
    /\ UNCHANGED <<filepath, lines, calls, first_result, promptVars, mainVars>>

\* for line in lines: ...   The first call on a file discovers its lines one by one;
\* a later call iterates the same lines.
ParseLine ==
    /\ pc = "loop"
    /\ IF calls = 0 THEN Len(lines) < MaxLines ELSE pos < Len(lines)
    /\ \E line \in (IF calls = 0 THEN LinePool ELSE {lines[pos + 1]}) :
          LET r == ProcessLine(temp_markdown, final_markdown, line)
          IN  /\ lines' = IF calls = 0 THEN Append(lines, line) ELSE lines
              /\ pos' = pos + 1
              /\ temp_markdown' = r.temp_markdown
              /\ final_markdown' = SharedAppend(r.final_markdown, info_shared, strip(line))
              /\ info_shared' =
                     SharedAfter(temp_markdown, r.temp_markdown, info_shared, strip(line))
              /\ exc' = r.exc
              /\ pc' = IF r.exc = "none" THEN "loop" ELSE "raised"
    /\ UNCHANGED <<filepath, result, calls, first_result, promptVars, mainVars>>

\* return final_markdown
ParseReturn ==
    /\ pc = "loop"
    /\ calls = 0 \/ pos = Len(lines)
    /\ pc' = "returned"
    /\ result' = final_markdown
    /\ UNCHANGED <<filepath, lines, temp_markdown, final_markdown, info_shared, pos,
                   calls, first_result, exc, promptVars, mainVars>>

NextParser == OpenFile \/ ParseLine \/ ParseReturn

SpecParser == InitParser /\ [][NextParser]_vars

\* parse_env_template(filepath) is called a second time on the same file
CallAgain ==
    /\ pc = "returned"
    /\ calls = 0
    /\ calls' = 1
    /\ first_result' = result
    /\ pc' = "open"
    /\ UNCHANGED <<exc, filepath, lines, temp_markdown, final_markdown, result,
                   info_shared, pos, promptVars, mainVars>>

NextParseTwice == NextParser \/ CallAgain

SpecParseTwice == InitParser /\ [][NextParseTwice]_vars

(***************************************************************************)
(* The template grammar as the specification words it, over the lines      *)
(* iterated so far.  These definitions read the template only, never the   *)
(* parser's state.                                                         *)
(***************************************************************************)
Trimmed(i) == strip(lines[i])

GrammarIsSection(t) ==
    Len(t) >= 3 /\ t[1] = "#" /\ t[2] = " " /\ t[3] # Backtick

GrammarIsRegex(t) ==
    Len(t) >= 3 /\ t[1] = "#" /\ t[2] = " " /\ t[3] = Backtick

GrammarIsQuestion(t) ==
    Len(t) >= 3 /\ t[1] = "#" /\ t[2] = "#" /\ t[3] = " "

GrammarIsInfo(t) ==
    Len(t) >= 4 /\ t[1] = "#" /\ t[2] = "#" /\ t[3] = "#" /\ t[4] = " "

\* t is NAME=..., NAME one or more of A-Z, 0-9, _
GrammarIsDecl(t) ==
    \E n \in 1..(Len(t) - 1) :
        /\ t[n + 1] = "="
        /\ \A j \in 1..n : t[j] \in string_ascii_uppercase \cup string_digits \cup {"_"}

GrammarName(t) ==
    LET n == CHOOSE n \in 1..(Len(t) - 1) :
                 /\ t[n + 1] = "="
                 /\ \A j \in 1..n : t[j] # "="
    IN  SubSeq(t, 1, n)

\* the text after the first "=" of a declaration line
GrammarDefault(t) == SubSeq(t, Len(GrammarName(t)) + 2, Len(t))

DeclIndexes == {i \in 1..Len(lines) : GrammarIsDecl(Trimmed(i))}

MaxOf(S) == CHOOSE x \in S : \A y \in S : y <= x

\* the declaration before line d, 0 at the start of the file
PrevDecl(d) ==
    LET before == {i \in DeclIndexes : i < d}
    IN  IF before = {} THEN 0 ELSE MaxOf(before)

\* the lines between the previous declaration and declaration d
Window(d) == (PrevDecl(d) + 1)..(d - 1)

\* the last declaration of the name declared at d
IsLastDeclOfName(d) ==
    \A e \in DeclIndexes :
        GrammarName(Trimmed(e)) = GrammarName(Trimmed(d)) => e <= d

RECURSIVE InfoTexts(_, _)
InfoTexts(lo, hi) ==
    IF lo > hi THEN <<>>
    ELSE (IF GrammarIsInfo(Trimmed(lo)) THEN <<From(Trimmed(lo), 4)>> ELSE <<>>)
         \o InfoTexts(lo + 1, hi)

\* the entry the mapping holds under the name declared at d
EntryOf(d) == Lookup(final_markdown, GrammarName(Trimmed(d)))

\* key k of entry e is the text (after n characters, cut by Cut) of the most recent
\* line of Window(d) of the kind Is, and is absent when the window has none
MostRecent(e, k, d, Is(_), Cut(_)) ==
    LET hits == {i \in Window(d) : Is(Trimmed(i))}
    IN  IF hits = {} THEN k \notin DOMAIN e
        ELSE k \in DOMAIN e /\ e[k] = Cut(Trimmed(MaxOf(hits)))

SectionText(t) == From(t, 2)
QuestionText(t) == From(t, 3)
RegexText(t) == StripChars(From(t, 2), {Backtick})

(***************************************************************************)
(* C1: every entry of the mapping carries, from the lines between the      *)
(* previous declaration (or the start of the file) and its declaration:    *)
(* section = the text of the most recent "# " heading whose third          *)
(* character is no backtick, question = the text of the most recent "## "  *)
(* heading, info = the texts of all "### " headings in source order, and   *)
(* regex = the content of the most recent regex heading without its        *)
(* backticks; other lines change nothing, and a regex heading never sets   *)
(* section.                                                                *)
(***************************************************************************)
C1_EntryCarriesPendingHeadings ==
    \A d \in DeclIndexes :
        IsLastDeclOfName(d) =>
            /\ GrammarName(Trimmed(d)) \in Keys(final_markdown)
            /\ LET e == EntryOf(d)
                   info == InfoTexts(PrevDecl(d) + 1, d - 1)
               IN  /\ MostRecent(e, "section", d, GrammarIsSection, SectionText)
                   /\ MostRecent(e, "question", d, GrammarIsQuestion, QuestionText)
                   /\ MostRecent(e, "regex", d, GrammarIsRegex, RegexText)
                   /\ IF info = <<>> THEN "info" \notin DOMAIN e
                      ELSE "info" \in DOMAIN e /\ e["info"] = info

\* an entry with two info lines before it, the second on a line with a line end,
\* has been returned
C1_Witness ==
    /\ pc = "returned"
    /\ lines = <<L_InfoA, L_InfoB, L_DeclB>>
    /\ Len(result) = 1
    /\ result[1].key = <<"B", "_", "2">>
    /\ result[1].value["info"] = << <<"a">>, <<"b">> >>

(***************************************************************************)
(* C3: for every failure to open or read the template file (nonexistent    *)
(* path, permission denied, empty path, embedded null byte, undecodable    *)
(* content) parse_env_template returns the empty mapping and raises        *)
(* nothing.                                                                *)
(***************************************************************************)
C3_OpenFailureReturnsEmpty ==
    (pc # "open" /\ OpenOutcome(filepath) # "ok") =>
        (pc = "returned" /\ result = <<>> /\ exc = "none")

(***************************************************************************)
(* C4: a regex heading whose pattern does not compile never aborts         *)
(* parsing: no exception leaves the parser, and the next declared          *)
(* variable's entry holds the pattern as regex and a non-empty             *)
(* regex_error.                                                            *)
(***************************************************************************)
C4_InvalidRegexNeverAborts ==
    \A i \in 1..Len(lines) :
        (GrammarIsRegex(Trimmed(i)) /\ re_compile(RegexText(Trimmed(i))) # "ok") =>
            /\ exc = "none"
            /\ pc # "raised"
            /\ \A d \in DeclIndexes :
                  (i \in Window(d) /\ IsLastDeclOfName(d)) =>
                      /\ "regex" \in DOMAIN EntryOf(d)
                      /\ EntryOf(d)["regex"] = RegexText(Trimmed(i))
                      /\ "regex_error" \in DOMAIN EntryOf(d)
                      /\ EntryOf(d)["regex_error"] # <<>>

(***************************************************************************)
(* C9: a name declared more than once has a single entry, whose metadata   *)
(* and default are exactly those of its last declaration, at the position  *)
(* of its first declaration.                                               *)
(***************************************************************************)
\* the names in the order of their first declarations
RECURSIVE FirstDeclOrder(_)
FirstDeclOrder(n) ==
    IF n = 0 THEN <<>>
    ELSE LET rest == FirstDeclOrder(n - 1)
         IN  IF /\ n \in DeclIndexes
                /\ \A e \in DeclIndexes : e < n => GrammarName(Trimmed(e)) # GrammarName(Trimmed(n))
             THEN Append(rest, GrammarName(Trimmed(n)))
             ELSE rest

\* the keys a window gives an entry, besides default
WindowKeys(d) ==
    {k \in {"section", "question", "info", "regex", "regex_error"} :
        \E i \in Window(d) :
            \/ k = "section" /\ GrammarIsSection(Trimmed(i))
            \/ k = "question" /\ GrammarIsQuestion(Trimmed(i))
            \/ k = "info" /\ GrammarIsInfo(Trimmed(i))
            \/ k = "regex" /\ GrammarIsRegex(Trimmed(i))
            \/ k = "regex_error" /\ GrammarIsRegex(Trimmed(i))
                  /\ re_compile(RegexText(Trimmed(i))) = "re.error"}

C9_RedeclarationLastWinsFirstPosition ==
    /\ [i \in 1..Len(final_markdown) |-> final_markdown[i].key] = FirstDeclOrder(Len(lines))
    /\ \A d \in DeclIndexes :
          (IsLastDeclOfName(d) /\ \E e \in DeclIndexes :
                e < d /\ GrammarName(Trimmed(e)) = GrammarName(Trimmed(d))) =>
              /\ Cardinality({i \in 1..Len(final_markdown) :
                                 final_markdown[i].key = GrammarName(Trimmed(d))}) = 1
              /\ DOMAIN EntryOf(d) = WindowKeys(d) \cup {"default"}
              /\ EntryOf(d)["default"] = GrammarDefault(Trimmed(d))

\* A is declared first, B_2 second, then A again with other metadata and default
C9_Witness ==
    /\ pc = "returned"
    /\ lines = <<L_DeclA1, L_DeclB, L_DeclAEmpty>>
    /\ Len(result) = 2
    /\ result[1].key = <<"A">>
    /\ DOMAIN result[1].value = {"default"}
    /\ result[1].value["default"] = <<>>

GrammarIsHeading(t) ==
    GrammarIsSection(t) \/ GrammarIsRegex(t) \/ GrammarIsQuestion(t) \/ GrammarIsInfo(t)

C11_AccumulatorEmptyAfterDeclaration ==
    /\ (pc \in {"loop", "returned"} /\ Len(lines) \in DeclIndexes) =>
           temp_markdown = EmptyDict
    /\ \A d \in DeclIndexes :
          (IsLastDeclOfName(d) /\ \A i \in Window(d) : ~GrammarIsHeading(Trimmed(i))) =>
              DOMAIN EntryOf(d) = {"default"}
    /\ Keys(final_markdown) = {GrammarName(Trimmed(d)) : d \in DeclIndexes}

\* B_2 is declared right after A, which took the section heading before it
C11_Witness ==
    /\ pc = "returned"
    /\ lines = <<L_SectionS, L_DeclA1, L_DeclB>>
    /\ temp_markdown = EmptyDict
    /\ "section" \in DOMAIN result[1].value
    /\ result[2].key = <<"B", "_", "2">>
    /\ DOMAIN result[2].value = {"default"}

(***************************************************************************)
(* C17: regex_error is present in an entry only if the regex stored in     *)
(* that same entry fails to compile; an entry whose stored regex is valid  *)
(* never carries a regex_error, also when several regex headings precede   *)
(* one declaration.                                                        *)
(***************************************************************************)
C17_RegexErrorOnlyWithInvalidRegex ==
    \A i \in 1..Len(final_markdown) :
        LET e == final_markdown[i].value
        IN  "regex_error" \in DOMAIN e =>
                ("regex" \in DOMAIN e /\ re_compile(e["regex"]) # "ok")

(***************************************************************************)
(* C19: entries are snapshots by value.  Only a declaration line changes   *)
(* the output mapping, and it changes only the entry of its own name;      *)
(* every heading, regex or ignored line processed after an entry was       *)
(* captured (further "### " lines appended to the accumulator included)    *)
(* leaves all already captured entries unchanged.                          *)
(***************************************************************************)
\* the step that iterates one more line
C19_LineStep ==
    (pc = "loop" /\ pos' = pos + 1) =>
        LET t == strip(lines'[pos'])
        IN  /\ Len(final_markdown') >= Len(final_markdown)
            /\ ~GrammarIsDecl(t) => final_markdown' = final_markdown
            /\ GrammarIsDecl(t) =>
                  /\ Keys(final_markdown') = Keys(final_markdown) \cup {GrammarName(t)}
                  /\ \A i \in 1..Len(final_markdown) :
                        final_markdown[i].key # GrammarName(t) =>
                            final_markdown'[i] = final_markdown[i]

C19_EntriesAreSnapshots == [][C19_LineStep]_vars

\* an info line has been iterated after A was captured with an info list
C19_Witness ==
    /\ pc = "loop"
    /\ lines = <<L_InfoA, L_DeclA1, L_InfoB>>
    /\ pos = 3
    /\ final_markdown[1].value["info"] = << <<"a">> >>
    /\ temp_markdown["info"] = << <<"b">> >>

(***************************************************************************)
(* C12: parsing is idempotent: a second call of parse_env_template on the  *)
(* same template returns a mapping equal to the first call's (same names   *)
(* in the same order, same metadata and defaults); no accumulator or       *)
(* mapping state of one call reaches the next.                             *)
(***************************************************************************)
C12_SecondCallReturnsEqualMapping ==
    (calls = 1 /\ pc = "returned") => (result = first_result /\ exc = "none")

\* the first call ended with a heading pending in its accumulator, and the second
\* call has returned
C12_Witness ==
    /\ calls = 1
    /\ pc = "returned"
    /\ lines = <<L_InfoA, L_DeclA1, L_SectionS>>
    /\ Len(first_result) = 1
    /\ result = first_result
    /\ "section" \notin DOMAIN result[1].value

(***************************************************************************)
(* parse_env_template as one call                                          *)
(***************************************************************************)
RECURSIVE ParseLines(_, _, _)
\* the loop over ls, from the state tm, fm
ParseLines(tm, fm, ls) ==
    IF ls = <<>> THEN [result |-> fm, exc |-> "none"]
    ELSE LET r == ProcessLine(tm, fm, Head(ls))
         IN  IF r.exc # "none" THEN [result |-> <<>>, exc |-> r.exc]
             ELSE ParseLines(r.temp_markdown, r.final_markdown, Tail(ls))

\* parse_env_template(filepath), the file at path holding the lines ls
parse_env_template(path, ls) ==
    LET o == OpenOutcome(path)
    IN  IF o = "ok" THEN ParseLines(EmptyDict, <<>>, ls)
        ELSE IF Bases(o) \cap OpenCaught # {} THEN [result |-> <<>>, exc |-> "none"]
        ELSE [result |-> <<>>, exc |-> o]

(***************************************************************************)
(* re.fullmatch and re.match on the patterns above: [0-9]+ by its meaning, *)
(* any other compiling text as a literal                                   *)
(***************************************************************************)
MatchesWhole(pattern, s) ==
    IF pattern = PatDigits
    THEN Len(s) >= 1 /\ \A i \in 1..Len(s) : s[i] \in string_digits
    ELSE s = pattern

MatchesPrefix(pattern, s) ==
    IF pattern = PatDigits
    THEN Len(s) >= 1 /\ s[1] \in string_digits
    ELSE startswith(s, pattern)

\* re.fullmatch(pattern, s): "match", "nomatch", or the exception compiling raises
re_fullmatch(pattern, s) ==
    IF re_compile(pattern) # "ok" THEN re_compile(pattern)
    ELSE IF MatchesWhole(pattern, s) THEN "match" ELSE "nomatch"

\* re.match(pattern, s)
re_match(pattern, s) ==
    IF re_compile(pattern) # "ok" THEN re_compile(pattern)
    ELSE IF MatchesPrefix(pattern, s) THEN "match" ELSE "nomatch"

(***************************************************************************)
(* generate_secure_random_string                                           *)
(***************************************************************************)
\* the period of the streams secrets.choice is drawn from
SeedLen == 2

\* alphabet = string.ascii_letters + string.digits
alphabet == string_ascii_letters \cup string_digits

\* the characters secrets.choice is let to pick here
ChoiceSample == {"a", "7", "-"}

\* the streams of picks of secrets.choice(alphabet)
Seeds == [1..SeedLen -> alphabet \cap ChoiceSample]

\* "".join(secrets.choice(alphabet) for _ in range(length)), the picks being seed
generate_secure_random_string(length, seed) ==
    [i \in 1..length |-> seed[((i - 1) % SeedLen) + 1]]

(***************************************************************************)
(* prompt                                                                  *)
(***************************************************************************)
MaxReads == 3

S_random == <<"r", "a", "n", "d", "o", "m">>

DigitValue(c) ==
    CASE c = "0" -> 0 [] c = "1" -> 1 [] c = "2" -> 2 [] c = "3" -> 3 [] c = "4" -> 4
      [] c = "5" -> 5 [] c = "6" -> 6 [] c = "7" -> 7 [] c = "8" -> 8 [] c = "9" -> 9

RECURSIVE int(_)
\* int(digits)
int(digits) ==
    IF digits = <<>> THEN 0
    ELSE 10 * int(SubSeq(digits, 1, Len(digits) - 1)) + DigitValue(digits[Len(digits)])

\* re.match(r"random\((\d+)\)", s).group(1), or <<>> when there is no match
RandomArg(s) ==
    LET open == S_random \o <<"(">>
        n == Len(open)
    IN  IF ~startswith(s, open) THEN <<>>
        ELSE LET nondigit == {i \in (n + 1)..Len(s) : s[i] \notin string_digits}
             IN  IF nondigit = {} THEN <<>>
                 ELSE LET stop == CHOOSE i \in nondigit : \A j \in nondigit : i <= j
                      IN  IF stop > n + 1 /\ s[stop] = ")"
                          THEN SubSeq(s, n + 1, stop - 1)
                          ELSE <<>>

DefaultRandomLength == 32

\* length = 32 always: the argument is never used
RandomLength_IgnoreArg(s) == DefaultRandomLength

\* length = int(match.group(1)) if match else 32
RandomLength(s) ==
    IF RandomArg(s) # <<>> THEN int(RandomArg(s)) ELSE DefaultRandomLength

\* data.get("default", "")
GetDefault(d) == IF "default" \in DOMAIN d THEN d["default"] ELSE <<>>

\* input(...).strip() only: an empty line stays empty
StripOrDefault_NoFallback(line, dflt) == strip(line)

\* input(...).strip() or user_value
StripOrDefault(line, dflt) == IF strip(line) # <<>> THEN strip(line) ELSE dflt

\* the re-prompt with the random substitution of the first prompt applied again
RetryCandidate_Substituted(line, dflt) ==
    IF startswith(StripOrDefault(line, dflt), S_random)
    THEN generate_secure_random_string(RandomLength(StripOrDefault(line, dflt)),
                                       [i \in 1..SeedLen |-> "7"])
    ELSE StripOrDefault(line, dflt)

\* input(...).strip() or user_value inside the loop: the line is taken as it is
RetryCandidate(line, dflt) == StripOrDefault(line, dflt)

\* re.match(data["regex"], input_str) instead: a matching prefix is enough
RegexTest_Prefix(pattern, s) == re_match(pattern, s)

\* re.fullmatch(data["regex"], input_str)
RegexTest(pattern, s) == re_fullmatch(pattern, s)

\* the lines input() returns
I_Empty == <<>>
I_Blank == <<" ", "\t">>
I_Seven == <<" ", "7", " ">>
I_OneX == <<"1", "x">>
I_Random2X == S_random \o <<"(", "2", ")", "x">>
I_RandomOpen == <<" ">> \o S_random \o <<"(", "2">>

InputPool == {I_Empty, I_Blank, I_Seven, I_OneX, I_Random2X, I_RandomOpen}

\* input_str = input(...).strip() or user_value, at the first prompt
PromptFirstInput ==
    /\ pc = "prompt_input"
    /\ \E line \in InputPool :
          /\ inputs' = <<line>>
          /\ user_value' = GetDefault(data)
          /\ input_str' = StripOrDefault(line, GetDefault(data))
    /\ pc' = "prompt_random"
    /\ UNCHANGED <<exc, parserVars, var, data, tested, ret, mainVars>>

\* if input_str.startswith("random"): ... input_str = generate_secure_random_string(length)
PromptRandom ==
    /\ pc = "prompt_random"
    /\ IF input_str = None
       THEN pc' = "raised" /\ exc' = "AttributeError" /\ input_str' = input_str
       ELSE /\ pc' = "prompt_test"
            /\ exc' = exc
            /\ IF startswith(input_str, S_random)
               THEN \E seed \in Seeds :
                       input_str' =
                           generate_secure_random_string(RandomLength(input_str), seed)
               ELSE input_str' = input_str
    /\ UNCHANGED <<parserVars, var, data, user_value, inputs, tested, ret, mainVars>>

\* if "regex" in data: while not re.fullmatch(data["regex"], input_str): ...
\* and, out of the loop, return input_str
PromptTest ==
    /\ pc = "prompt_test"
    /\ IF "regex" \notin DOMAIN data
       THEN pc' = "prompt_returned" /\ ret' = input_str /\ exc' = exc /\ tested' = tested
       ELSE LET m == RegexTest(data["regex"], input_str)
            IN  /\ tested' = Append(tested, input_str)
                /\ IF m = "match"
                   THEN pc' = "prompt_returned" /\ ret' = input_str /\ exc' = exc
                   ELSE IF m = "nomatch"
                   THEN pc' = "prompt_retry" /\ ret' = ret /\ exc' = exc
                   ELSE pc' = "raised" /\ ret' = ret /\ exc' = m
    /\ UNCHANGED <<parserVars, var, data, user_value, input_str, inputs, mainVars>>

\* input_str = input(prompt_str.center(term_width)).strip() or user_value
PromptRetryInput ==
    /\ pc = "prompt_retry"
    /\ Len(inputs) < MaxReads
    /\ \E line \in InputPool :
          /\ inputs' = Append(inputs, line)
          /\ input_str' = RetryCandidate(line, user_value)
    /\ pc' = "prompt_test"
    /\ UNCHANGED <<exc, parserVars, var, data, user_value, tested, ret, mainVars>>

NextPrompt == PromptFirstInput \/ PromptRandom \/ PromptTest \/ PromptRetryInput

(***************************************************************************)
(* The entries prompt is called with: those the parser makes of these      *)
(* templates                                                               *)
(***************************************************************************)
L_DeclRandom2 == S_random \o <<"(", "2", ")">>
L_DeclR == <<"R", "=">> \o L_DeclRandom2 \o <<"\n">>
L_DeclN == <<"N", "=">> \o S_random \o <<"\n">>
L_DeclX == <<"X", "=", "x">>
L_RegexRandom == <<"#", " ", Backtick>> \o S_random \o <<Backtick>>

PromptTemplates ==
    {<<L_RegexDigits, L_DeclA1>>, <<L_DeclAEmpty>>, <<L_RegexBad, L_DeclA1>>,
     <<L_DeclR>>, <<L_RegexDigits, L_DeclN>>, <<L_Lower, L_DeclX>>,
     <<L_RegexRandom, L_DeclN>>}

InitPrompt ==
    /\ pc = "prompt_input"
    /\ exc = "none"
    /\ filepath = "readable"
    /\ lines \in PromptTemplates
    /\ IdleParser
    /\ \E i \in 1..Len(parse_env_template(filepath, lines).result) :
          /\ var = parse_env_template(filepath, lines).result[i].key
          /\ data = parse_env_template(filepath, lines).result[i].value
    /\ IdlePrompt
    /\ IdleMain
    /\ IdleEnv

SpecPrompt == InitPrompt /\ [][NextPrompt]_vars

(***************************************************************************)
(* The words of the specification about one prompt call, over the lines    *)
(* read and the entry.                                                     *)
(***************************************************************************)
\* an empty or whitespace-only line
IsBlank(line) == \A i \in 1..Len(line) : line[i] \in Whitespace

\* the candidate a line stands for: the entry's default for a blank line, else the
\* line without its surrounding whitespace
Candidate(line) == IF IsBlank(line) THEN data["default"] ELSE strip(line)

\* c begins with random(N), N the digit string c[8..(7 + n)]
BeginsWithRandomN(c, n) ==
    /\ n >= 1
    /\ Len(c) >= Len(S_random) + n + 2
    /\ SubSeq(c, 1, Len(S_random)) = S_random
    /\ c[Len(S_random) + 1] = "("
    /\ \A j \in 1..n : c[Len(S_random) + 1 + j] \in string_digits
    /\ c[Len(S_random) + n + 2] = ")"

\* the length asked for by a candidate that begins with random
AskedLength(c) ==
    IF \E n \in 1..Len(c) : BeginsWithRandomN(c, n)
    THEN LET n == CHOOSE n \in 1..Len(c) : BeginsWithRandomN(c, n)
         IN  int(SubSeq(c, Len(S_random) + 2, Len(S_random) + 1 + n))
    ELSE 32

\* the 62 ASCII letters and digits
IsAlnum62(s) ==
    /\ Cardinality(string_ascii_letters \cup string_digits) = 62
    /\ \A i \in 1..Len(s) : s[i] \in string_ascii_letters \cup string_digits

(***************************************************************************)
(* C2: when the entry declares a regex, the value prompt returns is the    *)
(* first candidate that fully matches it: the value returned fully         *)
(* matches, it is the last candidate tested, no earlier candidate fully    *)
(* matches, each line read has been tested (so no input is read after a    *)
(* match), and the candidates are the first input after default fallback   *)
(* and random substitution, then each re-entered line after default        *)
(* fallback.                                                               *)
(***************************************************************************)
C2_ReturnsFirstFullMatch ==
    (pc = "prompt_returned" /\ "regex" \in DOMAIN data) =>
        /\ MatchesWhole(data["regex"], ret)
        /\ Len(tested) = Len(inputs)
        /\ ret = tested[Len(tested)]
        /\ \A k \in 1..(Len(tested) - 1) : ~MatchesWhole(data["regex"], tested[k])
        /\ \A k \in 2..Len(tested) : tested[k] = Candidate(inputs[k])
        /\ IF startswith(Candidate(inputs[1]), S_random)
           THEN Len(tested[1]) = AskedLength(Candidate(inputs[1])) /\ IsAlnum62(tested[1])
           ELSE tested[1] = Candidate(inputs[1])

\* a first candidate with a matching prefix only was refused and the next line returned
C2_Witness ==
    /\ pc = "prompt_returned"
    /\ "regex" \in DOMAIN data
    /\ inputs = <<I_OneX, I_Seven>>
    /\ tested = << <<"1", "x">>, <<"7">> >>
    /\ ret = <<"7">>

(***************************************************************************)
(* C5: no exception propagates out of prompt for any entry the parser can  *)
(* produce; with an invalid regex the user is re-prompted rather than the  *)
(* call failing.                                                           *)
(***************************************************************************)
C5_NoExceptionFromPrompt ==
    /\ exc = "none"
    /\ pc # "raised"
    /\ ("regex" \in DOMAIN data /\ re_compile(data["regex"]) # "ok") =>
          pc # "prompt_returned"

(***************************************************************************)
(* C6: when the first candidate (the input, or the default for an empty    *)
(* input) begins with random, it is replaced by a generated string of      *)
(* length N if it begins with random(N), N a digit string, and of length   *)
(* 32 otherwise, every character one of the 62 ASCII letters and digits.   *)
(***************************************************************************)
C6_RandomSubstitution ==
    (pc = "prompt_test" /\ Len(inputs) = 1 /\ tested = <<>>) =>
        (startswith(Candidate(inputs[1]), S_random) =>
            /\ Len(input_str) = AskedLength(Candidate(inputs[1]))
            /\ IsAlnum62(input_str))

\* random(2)x has been replaced by two generated characters
C6_Witness ==
    /\ pc = "prompt_test"
    /\ tested = <<>>
    /\ inputs = <<I_Random2X>>
    /\ input_str = <<"7", "a">>

(***************************************************************************)
(* C7: an empty or whitespace-only input line is replaced by the entry's   *)
(* default, at the first prompt and at every re-prompt after a failed      *)
(* validation; a non-empty line is never replaced by the default.          *)
(***************************************************************************)
C7_BlankLineFallsBackToDefault ==
    /\ pc = "prompt_random" => input_str = Candidate(inputs[1])
    /\ (pc = "prompt_test" /\ Len(inputs) >= 2) =>
          input_str = Candidate(inputs[Len(inputs)])

\* a whitespace-only line re-entered after a failed validation has become the default
C7_Witness ==
    /\ pc = "prompt_test"
    /\ inputs = <<I_OneX, I_Blank>>
    /\ tested = << <<"1", "x">> >>
    /\ data["default"] = <<"1">>
    /\ input_str = <<"1">>

(***************************************************************************)
(* C18: the random substitution is applied to the first candidate only: a  *)
(* line re-entered after a failed validation (or the default used for an   *)
(* empty re-entry) is tested literally, and a value returned after at      *)
(* least one retry is exactly the stripped re-entered line or the default, *)
(* never a generated string.                                               *)
(***************************************************************************)
C18_RetriesAreTestedLiterally ==
    /\ \A k \in 2..Len(tested) : tested[k] = Candidate(inputs[k])
    /\ (pc = "prompt_returned" /\ Len(inputs) >= 2) =>
          ret = Candidate(inputs[Len(inputs)])

\* the default random was replaced by a generated string at the first prompt and
\* refused; taken again for an empty re-entry it was tested as the text random and
\* returned
C18_Witness ==
    /\ pc = "prompt_returned"
    /\ inputs = <<I_Empty, I_Blank>>
    /\ "regex" \in DOMAIN data
    /\ data["regex"] = S_random
    /\ Len(tested) = 2
    /\ Len(tested[1]) = DefaultRandomLength
    /\ tested[2] = S_random
    /\ ret = S_random

(***************************************************************************)
(* C15: the validation loop has no retry bound.  With a regex declared,    *)
(* prompt returns if and only if some candidate fully matches it, and      *)
(* while every candidate tested has failed the call goes on reading input: *)
(* it has neither returned a value nor ended in any other way.             *)
(***************************************************************************)
\* candidate s fully matches the regex of the entry
FullyMatches(s) == re_compile(data["regex"]) = "ok" /\ MatchesWhole(data["regex"], s)

C15_LoopEndsOnlyOnMatch ==
    ("regex" \in DOMAIN data /\ tested # <<>>) =>
        /\ pc = "prompt_returned" <=> \E k \in 1..Len(tested) : FullyMatches(tested[k])
        /\ (\A k \in 1..Len(tested) : ~FullyMatches(tested[k])) =>
               pc \in {"prompt_retry", "prompt_test"}

(***************************************************************************)
(* main: from the call of parse_env_template to the assembled output       *)
(***************************************************************************)
\* os.linesep
linesep == <<"\n">>

RECURSIVE Join(_)
\* os.linesep.join(content)
Join(content) ==
    IF content = <<>> THEN <<>>
    ELSE IF Len(content) = 1 THEN content[1]
    ELSE content[1] \o linesep \o Join(Tail(content))

\* the entry the loop fetches last instead: parsed_env iterated in reverse
EntryAt_Reversed(env, i) == env[Len(env) + 1 - i]

\* the i-th (var, data) of enumerate(parsed_env.items(), 1)
EntryAt(env, i) == env[i]

\* f"{var}={user_input}"
EnvLine(name, user_input) == name \o <<"=">> \o user_input

\* the template files main is run on
MainTemplates ==
    {<<L_Lower>>, <<L_DeclA1, L_DeclB, L_DeclAEmpty>>, <<L_RegexDigits, L_DeclA1, L_DeclR>>,
     <<L_RegexBad, L_DeclA1, L_DeclB>>, <<L_DeclB, L_RegexHuge>>}

\* the processes main runs in
Platforms ==
    {[os_name |-> "posix", euid |-> e, IsUserAnAdmin |-> "absent"] :
        e \in {"0", "1000", "absent"}}
    \cup {[os_name |-> "nt", euid |-> "absent", IsUserAnAdmin |-> a] :
            a \in {"0", "1", "raises"}}

\* the root test with the Windows branch left out
IsElevated_PosixOnly(pf) == pf.os_name # "nt" /\ pf.euid = "0"

\* the condition under which main prints the error and calls sys.exit(1)
IsElevated(pf) ==
    IF pf.os_name # "nt"
    THEN pf.euid # "absent" /\ pf.euid = "0"
    ELSE LET is_admin == IF pf.IsUserAnAdmin = "raises" THEN FALSE
                         ELSE pf.IsUserAnAdmin # "0"
         IN  is_admin

\* the output file before the run: absent, or holding earlier content
OldContent == <<"o", "l", "d", "\n">>
Disks == {[exists |-> FALSE, content |-> <<>>], [exists |-> TRUE, content |-> OldContent]}

Init ==
    /\ pc = "start"
    /\ exc = "none"
    /\ \/ filepath = "readable" /\ lines \in MainTemplates
       \/ filepath \in {"nonexistent", "nullbyte"} /\ lines = <<>>
    /\ IdleParser
    /\ var = <<>>
    /\ data = EmptyDict
    /\ IdlePrompt
    /\ IdleMain
    /\ platform \in Platforms
    /\ disk \in Disks
    /\ disk0 = disk

\* if os.name != "nt": if hasattr(os, "geteuid") and os.geteuid() == 0: sys.exit(1)
\* else: ... if is_admin: sys.exit(1)
MainRootCheck ==
    /\ pc = "start"
    /\ IF IsElevated(platform)
       THEN pc' = "exited" /\ exit_code' = "1"
       ELSE pc' = "main" /\ exit_code' = exit_code
    /\ UNCHANGED <<exc, parserVars, promptVars, parsed_env, idx, env_file_content,
                   env_file_string, prompt_calls, prompt_returns, platform,
                   max_env_size, env_length, proceed, output_filename, overwrite,
                   main_inputs, f, disk, disk0>>

\* parsed_env = parse_env_template(args.filename); if not parsed_env: return
MainParse ==
    /\ pc = "main"
    /\ LET r == parse_env_template(filepath, lines)
       IN  /\ exc' = r.exc
           /\ parsed_env' = r.result
           /\ pc' = IF r.exc # "none" THEN "raised"
                    ELSE IF r.result = <<>> THEN "main_returned"
                    ELSE "main_loop"
    /\ UNCHANGED <<parserVars, promptVars, idx, env_file_content, env_file_string,
                   prompt_calls, prompt_returns, outputVars>>

\* for idx, (var, data) in enumerate(parsed_env.items(), 1): prompt(var, data, ...)
MainLoop ==
    /\ pc = "main_loop"
    /\ idx < Len(parsed_env)
    /\ idx' = idx + 1
    /\ var' = EntryAt(parsed_env, idx + 1).key
    /\ data' = EntryAt(parsed_env, idx + 1).value
    /\ prompt_calls' = Append(prompt_calls, var')
    /\ user_value' = <<>>
    /\ input_str' = <<>>
    /\ inputs' = <<>>
    /\ tested' = <<>>
    /\ ret' = <<>>
    /\ pc' = "prompt_input"
    /\ UNCHANGED <<exc, parserVars, parsed_env, env_file_content, env_file_string,
                   prompt_returns, outputVars>>

\* user_input = prompt(...); env_file_content.append(f"{var}={user_input}")
MainCollect ==
    /\ pc = "prompt_returned"
    /\ prompt_returns' = Append(prompt_returns, ret)
    /\ env_file_content' = Append(env_file_content, EnvLine(var, ret))
    /\ pc' = "main_loop"
    /\ UNCHANGED <<exc, parserVars, promptVars, parsed_env, idx, env_file_string,
                   prompt_calls, outputVars>>

\* env_file_string = os.linesep.join(env_file_content)
MainAssemble ==
    /\ pc = "main_loop"
    /\ idx = Len(parsed_env)
    /\ env_file_string' = Join(env_file_content)
    /\ pc' = "assembled"
    /\ UNCHANGED <<exc, parserVars, promptVars, parsed_env, idx, env_file_content,
                   prompt_calls, prompt_returns, outputVars>>

\* str.lower() on the ASCII letters
ascii_upper ==
    <<"A", "B", "C", "D", "E", "F", "G", "H", "I", "J", "K", "L", "M",
      "N", "O", "P", "Q", "R", "S", "T", "U", "V", "W", "X", "Y", "Z">>
ascii_lower ==
    <<"a", "b", "c", "d", "e", "f", "g", "h", "i", "j", "k", "l", "m",
      "n", "o", "p", "q", "r", "s", "t", "u", "v", "w", "x", "y", "z">>
lower(s) ==
    [i \in 1..Len(s) |->
        IF \E k \in DOMAIN ascii_upper : ascii_upper[k] = s[i]
        THEN ascii_lower[CHOOSE k \in DOMAIN ascii_upper : ascii_upper[k] = s[i]]
        ELSE s[i]]

WindowsMaxEnvSize == 32767
FallbackMaxEnvSize == 131072

\* what os.sysconf("SC_ARG_MAX") does: a limit the assembled outputs of the
\* templates exceed, a limit they stay under, or the exception of a system
\* without the name
ArgMaxValues == {4, 2097152}
SysconfOutcomes ==
    {[raises |-> FALSE, value |-> v] : v \in ArgMaxValues}
    \cup {[raises |-> TRUE, value |-> 0]}

\* max_env_size, sc being what os.sysconf does
MaxEnvSize(os_name, sc) ==
    IF os_name = "nt" THEN WindowsMaxEnvSize
    ELSE IF sc.raises THEN FallbackMaxEnvSize
    ELSE sc.value

\* len(env_file_string.encode("utf-8")): every character of the model is ASCII
ByteLength(text) == Len(text)

\* the answer is refused unless it is n: an empty answer would count as yes
Declined_OnlyN(answer) == answer = <<"n">>

\* proceed != "y", overwrite != "y"
Declined(answer) == answer # <<"y">>

\* the lines the user answers the yes/no questions with
A_y == <<"y">>
A_YPadded == <<" ", "Y", " ">>
A_n == <<"n">>
A_yes == <<"y", "e", "s">>
AnswerPool == {A_y, A_YPadded, A_n, A_yes, I_Empty}

\* the lines the user answers the filename question with
DotEnv == <<".", "e", "n", "v">>
F_Out == <<" ", "o", "u", "t">>
FilenamePool == {I_Empty, F_Out}

\* if os.name == "nt": ... env_length = len(...); if env_length > max_env_size:
MainSizeCheck ==
    /\ pc = "assembled"
    /\ \E sc \in SysconfOutcomes :
          max_env_size' = MaxEnvSize(platform.os_name, sc)
    /\ env_length' = ByteLength(env_file_string)
    /\ pc' = IF env_length' > max_env_size' THEN "ask_proceed" ELSE "ask_filename"
    /\ UNCHANGED <<exc, parserVars, promptVars, parsed_env, idx, env_file_content,
                   env_file_string, prompt_calls, prompt_returns, platform, exit_code,
                   proceed, output_filename, overwrite, main_inputs, f, disk, disk0>>

\* proceed = input(...).strip().lower(); if proceed != "y": return
MainAskProceed ==
    /\ pc = "ask_proceed"
    /\ \E line \in AnswerPool :
          /\ main_inputs' = Append(main_inputs, line)
          /\ proceed' = lower(strip(line))
    /\ pc' = IF Declined(proceed') THEN "main_returned" ELSE "ask_filename"
    /\ UNCHANGED <<exc, parserVars, promptVars, parsed_env, idx, env_file_content,
                   env_file_string, prompt_calls, prompt_returns, platform, exit_code,
                   max_env_size, env_length, output_filename, overwrite, f, disk, disk0>>

\* output_filename = input(...).strip() or ".env"; if os.path.exists(output_filename):
MainAskFilename ==
    /\ pc = "ask_filename"
    /\ \E line \in FilenamePool :
          /\ main_inputs' = Append(main_inputs, line)
          /\ output_filename' = StripOrDefault(line, DotEnv)
    /\ pc' = IF disk.exists THEN "ask_overwrite" ELSE "open_output"
    /\ UNCHANGED <<exc, parserVars, promptVars, parsed_env, idx, env_file_content,
                   env_file_string, prompt_calls, prompt_returns, platform, exit_code,
                   max_env_size, env_length, proceed, overwrite, f, disk, disk0>>

\* overwrite = input(...).strip().lower(); if overwrite != "y": return
MainAskOverwrite ==
    /\ pc = "ask_overwrite"
    /\ \E line \in AnswerPool :
          /\ main_inputs' = Append(main_inputs, line)
          /\ overwrite' = lower(strip(line))
    /\ pc' = IF Declined(overwrite') THEN "main_returned" ELSE "open_output"
    /\ UNCHANGED <<exc, parserVars, promptVars, parsed_env, idx, env_file_content,
                   env_file_string, prompt_calls, prompt_returns, platform, exit_code,
                   max_env_size, env_length, proceed, output_filename, f, disk, disk0>>

\* what open(output_filename, "w") does
WriteOpenOutcomes == {"ok", "PermissionError", "IsADirectoryError"}

\* except (OSError, IOError)
WriteCaught == {"OSError"}

\* try: with open(output_filename, "w") as f:   opening truncates the file
MainOpenOutput ==
    /\ pc = "open_output"
    /\ \E o \in WriteOpenOutcomes :
          IF o = "ok"
          THEN /\ f' = [opened |-> TRUE, buffer |-> <<>>, writes |-> 0, closed |-> FALSE]
               /\ disk' = [exists |-> TRUE, content |-> <<>>]
               /\ pc' = "write"
               /\ exc' = exc
          ELSE /\ UNCHANGED <<f, disk>>
               /\ IF Bases(o) \cap WriteCaught # {}
                  THEN pc' = "main_returned" /\ exc' = exc
                  ELSE pc' = "raised" /\ exc' = o
    /\ UNCHANGED <<parserVars, promptVars, parsed_env, idx, env_file_content,
                   env_file_string, prompt_calls, prompt_returns, platform, exit_code,
                   max_env_size, env_length, proceed, output_filename, overwrite,
                   main_inputs, disk0>>

\* the two header lines, shortened; the date is not modelled
HeaderGenerated == <<"#", " ", "G", "\n">>
HeaderDoNotEdit == <<"#", " ", "D", "\n">>

\* the texts of the three f.write calls, in order
OutputChunks(body) == <<HeaderGenerated, HeaderDoNotEdit, body>>

\* f.write(...): one of the three calls; the text goes to the buffer of f
MainWrite ==
    /\ pc = "write"
    /\ f.writes < Len(OutputChunks(env_file_string))
    /\ f' = [f EXCEPT !.buffer = @ \o OutputChunks(env_file_string)[f.writes + 1],
                      !.writes = @ + 1]
    /\ UNCHANGED <<pc, exc, parserVars, promptVars, parsed_env, idx, env_file_content,
                   env_file_string, prompt_calls, prompt_returns, platform, exit_code,
                   max_env_size, env_length, proceed, output_filename, overwrite,
                   main_inputs, disk, disk0>>

\* the end of the with block closes f, which writes the buffer out; then the
\* message is printed and main returns
MainClose ==
    /\ pc = "write"
    /\ f.writes = Len(OutputChunks(env_file_string))
    /\ f' = [f EXCEPT !.closed = TRUE]
    /\ disk' = [exists |-> TRUE, content |-> f.buffer]
    /\ pc' = "main_returned"
    /\ UNCHANGED <<exc, parserVars, promptVars, parsed_env, idx, env_file_content,
                   env_file_string, prompt_calls, prompt_returns, platform, exit_code,
                   max_env_size, env_length, proceed, output_filename, overwrite,
                   main_inputs, disk0>>

Next ==
    \/ MainRootCheck
    \/ MainParse
    \/ MainLoop
    \/ PromptFirstInput
    \/ PromptRandom
    \/ PromptTest
    \/ PromptRetryInput
    \/ MainCollect
    \/ MainAssemble
    \/ MainSizeCheck
    \/ MainAskProceed
    \/ MainAskFilename
    \/ MainAskOverwrite
    \/ MainOpenOutput
    \/ MainWrite
    \/ MainClose

Spec == Init /\ [][Next]_vars

\* the signals of the handler
Signals == {"SIGINT", "SIGTERM", "SIGHUP"}

\* handle_exit(signum, frame): print the goodbye, sys.exit(0).  SystemExit unwinds
\* main from wherever it stands; inside the with block it closes f, which writes
\* the buffer out.
HandleExit ==
    /\ pc \notin {"exited", "main_returned", "raised"}
    /\ \E signum \in Signals :
          /\ pc' = "exited"
          /\ exit_code' = "0"
    /\ IF f.opened /\ ~f.closed
       THEN /\ f' = [f EXCEPT !.closed = TRUE]
            /\ disk' = [exists |-> TRUE, content |-> f.buffer]
       ELSE UNCHANGED <<f, disk>>
    /\ UNCHANGED <<exc, parserVars, promptVars, parsed_env, idx, env_file_content,
                   env_file_string, prompt_calls, prompt_returns, platform,
                   max_env_size, env_length, proceed, output_filename, overwrite,
                   main_inputs, disk0>>

NextSignals == Next \/ HandleExit

SpecSignals == Init /\ [][NextSignals]_vars

(***************************************************************************)
(* C8: the session driver calls prompt exactly once per entry of the       *)
(* parsed mapping, in insertion order, and the assembled output has        *)
(* exactly one line NAME=value per entry, in that order, value being what  *)
(* prompt returned for the entry.                                          *)
(***************************************************************************)
RECURSIVE SplitLines(_)
\* the lines of a text, cut at each line separator
SplitLines(text) ==
    IF \E i \in 1..Len(text) : text[i] = "\n"
    THEN LET cut == CHOOSE i \in 1..Len(text) :
                        text[i] = "\n" /\ \A j \in 1..(i - 1) : text[j] # "\n"
         IN  <<SubSeq(text, 1, cut - 1)>> \o SplitLines(SubSeq(text, cut + 1, Len(text)))
    ELSE <<text>>

C8_OnePromptPerEntryInOrder ==
    /\ \A i, j \in 1..Len(parsed_env) : parsed_env[i].key = parsed_env[j].key => i = j
    /\ Len(prompt_calls) <= Len(parsed_env)
    /\ \A i \in 1..Len(prompt_calls) : prompt_calls[i] = parsed_env[i].key
    /\ Len(prompt_returns) = Len(env_file_content)
    /\ Len(prompt_returns) <= Len(prompt_calls)
    /\ Len(prompt_calls) <= Len(prompt_returns) + 1
    /\ \A i \in 1..Len(env_file_content) :
          env_file_content[i] = parsed_env[i].key \o <<"=">> \o prompt_returns[i]
    /\ pc = "assembled" =>
          /\ Len(prompt_calls) = Len(parsed_env)
          /\ Len(prompt_returns) = Len(parsed_env)
          /\ SplitLines(env_file_string) =
                 [i \in 1..Len(parsed_env) |->
                     parsed_env[i].key \o <<"=">> \o prompt_returns[i]]

\* the output of a template that declares A, B_2 and A again has been assembled
C8_Witness ==
    /\ pc = "assembled"
    /\ lines = <<L_DeclA1, L_DeclB, L_DeclAEmpty>>
    /\ prompt_calls = << <<"A">>, <<"B", "_", "2">> >>
    /\ prompt_returns = << <<"7">>, <<"x", "=", "y">> >>
    /\ env_file_string =
           <<"A", "=", "7", "\n", "B", "_", "2", "=", "x", "=", "y">>

(***************************************************************************)
(* C14: when the process runs with effective uid 0 (or as Administrator on *)
(* Windows), main exits with code 1 before the template is parsed, before  *)
(* any prompt and before any file is written.                              *)
(***************************************************************************)
\* the process is root, or Administrator by what IsUserAnAdmin reports
RunsElevated ==
    \/ platform.os_name = "posix" /\ platform.euid = "0"
    \/ platform.os_name = "nt" /\ platform.IsUserAnAdmin = "1"

C14_ElevatedExitsBeforeAnything ==
    RunsElevated =>
        /\ pc \in {"start", "exited"}
        /\ pc = "exited" => exit_code = "1"
        /\ parsed_env = <<>>
        /\ prompt_calls = <<>> /\ inputs = <<>> /\ main_inputs = <<>>
        /\ ~f.opened /\ disk = disk0

\* an Administrator process on Windows has exited with code 1, the existing output
\* file as it was
C14_Witness ==
    /\ platform.os_name = "nt"
    /\ platform.IsUserAnAdmin = "1"
    /\ pc = "exited"
    /\ exit_code = "1"
    /\ disk = [exists |-> TRUE, content |-> OldContent]

(***************************************************************************)
(* C16: the output file is opened for writing only after every variable    *)
(* has been resolved, only if the parsed mapping is non-empty, and only if *)
(* (the size is within the limit or the user answered y to continuing) and *)
(* (the file does not exist or the user answered y to overwriting); on any *)
(* other answer main returns with the existing file untouched.             *)
(***************************************************************************)
\* the user answered y: the letter, in either case, with or without blanks around
SaidYes(line) == strip(line) \in {<<"y">>, <<"Y">>}

\* the lines main read as answers to its two yes/no questions, <<>> where the
\* question was not asked: the filename is asked between them
ProceedAnswers ==
    IF env_length > max_env_size /\ Len(main_inputs) >= 1 THEN <<main_inputs[1]>> ELSE <<>>

OverwriteAnswers ==
    LET n == Len(ProceedAnswers) + 2
    IN  IF disk0.exists /\ Len(main_inputs) >= n THEN <<main_inputs[n]>> ELSE <<>>

C16_OutputOpenedOnlyAfterConsent ==
    /\ f.opened =>
          /\ parsed_env # <<>>
          /\ Len(prompt_returns) = Len(parsed_env)
          /\ Len(env_file_content) = Len(parsed_env)
          /\ env_length <= max_env_size
                \/ (ProceedAnswers # <<>> /\ SaidYes(ProceedAnswers[1]))
          /\ ~disk0.exists
                \/ (OverwriteAnswers # <<>> /\ SaidYes(OverwriteAnswers[1]))
    /\ ~f.opened => disk = disk0
    /\ \A a \in {ProceedAnswers, OverwriteAnswers} :
          (a # <<>> /\ ~SaidYes(a[1])) =>
              (pc = "main_returned" /\ ~f.opened /\ disk = disk0)

\* an output over the limit was written over the existing file after Y and y
C16_Witness ==
    /\ pc = "main_returned"
    /\ env_length > max_env_size
    /\ disk0.exists
    /\ main_inputs = <<A_YPadded, I_Empty, A_y>>
    /\ output_filename = DotEnv
    /\ f.closed
    /\ disk.content = HeaderGenerated \o HeaderDoNotEdit \o env_file_string

(***************************************************************************)
(* C13: cancellation never leaves partial output: whenever SIGINT, SIGTERM *)
(* or SIGHUP arrives, the process exits with code 0 and the output file is *)
(* either not touched at all or holds the complete generated content.      *)
(***************************************************************************)
C13_SignalLeavesNoPartialOutput ==
    (pc = "exited" /\ ~RunsElevated) =>
        /\ exit_code = "0"
        /\ \/ disk = disk0
           \/ disk = [exists |-> TRUE,
                      content |-> HeaderGenerated \o HeaderDoNotEdit \o env_file_string]
====
